---- MODULE Spec2Model ----
(***************************************************************************)
(* Admission queue, circuit breaker, health monitor and routing policy of  *)
(* the CDR API (src/src/queue.ts, src/src/db-health.ts, src/src/db.ts).    *)
(*                                                                         *)
(* JavaScript runs every callback to completion, so one action is one      *)
(* synchronous run: a call from outside (enqueue, safeQuery, resetCircuit),*)
(* the continuation of an await, or a timer callback.  Date.now() is the   *)
(* variable now; null timestamps are 0 and the clock starts at 1 (the code *)
(* tests lastFailureTime by truthiness, which treats null and 0 alike).    *)
(***************************************************************************)
EXTENDS Integers, Sequences, FiniteSets

\* ---- bounds of the model ----
MaxItems == 4
MaxTime == 4
MaxDirect == 1
MaxRouted == 3
MaxChecks == 2
MaxRetries == 4

\* ---- configuration of RequestQueue (scaled-down values of the defaults) ----
MAX_QUEUE_SIZE == 2
REQUEST_TIMEOUT == 1
FAILURE_THRESHOLD == 2
SUCCESS_THRESHOLD == 2
CIRCUIT_RESET_TIMEOUT == 2
MAX_REQUEST_AGE == 2

\* ---- configuration of DatabaseHealthMonitor (scaled down likewise) ----
CHECK_INTERVAL_MS == 1
HEALTH_CHECK_TIMEOUT_MS == 2

VARIABLES
  now,              \* Date.now()
  dbUp,             \* the downstream serves queries (environment)
  queue,            \* RequestQueue.queue: sequence of QueuedRequest
  isProcessing,     \* RequestQueue.isProcessing
  circuitState,     \* RequestQueue.circuitState
  failureCount,     \* RequestQueue.failureCount
  successCount,     \* RequestQueue.successCount
  lastFailureTime,  \* RequestQueue.lastFailureTime (0 = null)
  pc,               \* where processQueue is: "idle", "await" (inside processRequest), "resume"
  request,          \* the QueuedRequest processRequest is racing, or None
  started,          \* when its timeout timer was set
  retryTimers,      \* pending setTimeout(() => this.processQueue(), 100) callbacks
  late,             \* handlers still running after their timeout was delivered
  nextId,           \* number of enqueue calls made so far (a call's id is its handler)
  settled,          \* every resolve/reject call made on a queued request, in order
  invoked,          \* per handler: number of times request.handler() was called
  overloaded,       \* enqueue calls rejected with 'Queue overloaded'
  healthy,          \* DatabaseHealthMonitor.healthy
  lastCheck,        \* DatabaseHealthMonitor.lastCheck
  lastSuccess,      \* DatabaseHealthMonitor.lastSuccess (0 = null)
  lastFailure,      \* DatabaseHealthMonitor.lastFailure (0 = null)
  consecutiveFailures,
  consecutiveSuccesses,
  totalChecks,
  failedChecks,
  checkInterval,    \* live setInterval timers (the field holds the handle of the one there is)
  probes,           \* checkHealth calls awaiting their race: [n, at]
  probeSeq,         \* number of checkHealth calls made so far
  direct,           \* fast-path queries in flight
  wpc,              \* where start() and its waitForPostgres call are: "init", "query",
                    \* "sleep", "returned", "threw", then "listen", "listening"
  wGiven,           \* waitForPostgres: the arguments retries and delay it was called with
  retries,          \* waitForPostgres: its variable retries
  wAttempts,        \* waitForPostgres: pool.query('SELECT NOW()') calls made
  wSlept,           \* waitForPostgres: total of the delays it has waited
  isShuttingDown,   \* index.ts: isShuttingDown
  exitCode          \* the code process.exit was called with, -1 while the process runs

qvars == <<queue, isProcessing, circuitState, failureCount, successCount, lastFailureTime>>
dvars == <<pc, request, started, retryTimers>>
ivars == <<nextId, settled, invoked, overloaded, late>>
hvars == <<healthy, lastCheck, lastSuccess, lastFailure, consecutiveFailures,
           consecutiveSuccesses, totalChecks, failedChecks, checkInterval, probes, probeSeq>>
vars == <<now, dbUp, queue, isProcessing, circuitState, failureCount, successCount,
          lastFailureTime, pc, request, started, retryTimers, late, nextId, settled,
          invoked, overloaded, healthy, lastCheck, lastSuccess, lastFailure,
          consecutiveFailures, consecutiveSuccesses, totalChecks, failedChecks,
          checkInterval, probes, probeSeq, direct, wpc, wGiven, retries, wAttempts,
          wSlept, isShuttingDown, exitCode>>
wvars == <<wpc, wGiven, retries, wAttempts, wSlept, isShuttingDown, exitCode>>

Ids == 1..MaxItems
None == [id |-> 0, timestamp |-> 0]

\* QueuedRequest: the handler (named by the id of its enqueue call) and its timestamp;
\* resolve and reject are the entries appended to settled.
QueuedRequest(i, t) == [id |-> i, timestamp |-> t]

Settle(i, k) == [id |-> i, kind |-> k]

RECURSIVE RejectAll(_, _)
RejectAll(q, k) ==
  IF Len(q) = 0 THEN <<>> ELSE <<Settle(Head(q).id, k)>> \o RejectAll(Tail(q), k)

\* cleanupOldRequests with `>=` for `>` in the age test
RECURSIVE cleanupOldRequests_atAge(_, _)
cleanupOldRequests_atAge(q, t) ==
  IF Len(q) > 0 /\ t - Head(q).timestamp >= MAX_REQUEST_AGE
  THEN cleanupOldRequests_atAge(Tail(q), t)
  ELSE q

\* cleanupOldRequests: the queue left after the expired head items were shifted out
RECURSIVE cleanupOldRequests(_, _)
cleanupOldRequests(q, t) ==
  IF Len(q) > 0 /\ t - Head(q).timestamp > MAX_REQUEST_AGE
  THEN cleanupOldRequests(Tail(q), t)
  ELSE q

\* drainLoop without the `continue` after an aged request is rejected
drainLoop_noContinue(q, t1, t2) ==
  IF Len(q) = 0
  THEN [queue |-> q, rejects |-> <<>>, request |-> None]
  ELSE LET q1 == cleanupOldRequests(q, t1)
           ex == RejectAll(SubSeq(q, 1, Len(q) - Len(q1)), "expired")
       IN IF Len(q1) = 0
          THEN [queue |-> q1, rejects |-> ex, request |-> None]
          ELSE [queue |-> Tail(q1),
                rejects |-> IF t2 - Head(q1).timestamp > MAX_REQUEST_AGE
                            THEN ex \o <<Settle(Head(q1).id, "queuedTooLong")>>
                            ELSE ex,
                request |-> Head(q1)]

\* the while loop of processQueue up to the next processRequest call or its exit:
\* t1 is Date.now() read by cleanupOldRequests, t2 >= t1 the one read for requestAge
RECURSIVE drainLoop(_, _, _)
drainLoop(q, t1, t2) ==
  IF Len(q) = 0
  THEN [queue |-> q, rejects |-> <<>>, request |-> None]
  ELSE LET q1 == cleanupOldRequests(q, t1)
           ex == RejectAll(SubSeq(q, 1, Len(q) - Len(q1)), "expired")
       IN IF Len(q1) = 0
          THEN [queue |-> q1, rejects |-> ex, request |-> None]
          ELSE IF t2 - Head(q1).timestamp > MAX_REQUEST_AGE
               THEN LET r == drainLoop(Tail(q1), t2, t2)
                    IN [r EXCEPT !.rejects =
                          ex \o <<Settle(Head(q1).id, "queuedTooLong")>> \o @]
               ELSE [queue |-> Tail(q1), rejects |-> ex, request |-> Head(q1)]

\* the finally block of processQueue, run with queue q and circuit state cs
Finally(q, cs) ==
  /\ isProcessing' = FALSE
  /\ pc' = "idle"
  /\ request' = None
  /\ started' = 0
  /\ retryTimers' = IF Len(q) > 0 /\ cs # "OPEN" THEN retryTimers + 1 ELSE retryTimers

\* the loop of processQueue entered with queue q; the clock moves by d while it runs
RunLoop(q, cs, d) ==
  LET r == drainLoop(q, now, now + d)
  IN /\ now' = now + d
     /\ queue' = r.queue
     /\ settled' = settled \o r.rejects
     /\ IF r.request # None
        THEN /\ isProcessing' = TRUE
             /\ pc' = "await"
             /\ request' = r.request
             /\ started' = now + d
             /\ invoked' = [invoked EXCEPT ![r.request.id] = @ + 1]
             /\ UNCHANGED retryTimers
        ELSE /\ Finally(r.queue, cs)
             /\ UNCHANGED invoked

\* processQueue without the isProcessing guard
processQueue_noGuard(q, cs, d) == RunLoop(q, cs, d)
\* processQueue() called with queue q
processQueue(q, cs, d) ==
  IF isProcessing
  THEN /\ queue' = q
       /\ now' = now
       /\ UNCHANGED <<isProcessing, pc, request, started, retryTimers, settled, invoked>>
  ELSE RunLoop(q, cs, d)

\* shouldAttemptReset measuring against REQUEST_TIMEOUT
shouldAttemptReset_wrongTimeout ==
  IF lastFailureTime = 0 THEN FALSE
  ELSE now - lastFailureTime >= REQUEST_TIMEOUT
shouldAttemptReset ==
  IF lastFailureTime = 0 THEN FALSE
  ELSE now - lastFailureTime >= CIRCUIT_RESET_TIMEOUT

\* the clock may move while a synchronous run executes
ClockSteps == {d \in {0, 1} : now + d <= MaxTime}

\* this.queue.length >= this.MAX_QUEUE_SIZE
QueueFull_offByOne == Len(queue) > MAX_QUEUE_SIZE
QueueFull == Len(queue) >= MAX_QUEUE_SIZE

\* this.queue.push(r)
push_atHead(q, r) == <<r>> \o q
push(q, r) == Append(q, r)

\* enqueue(handler)
enqueue(d) ==
  /\ nextId' = nextId + 1
  /\ IF QueueFull
     THEN /\ overloaded' = overloaded \cup {nextId + 1}
          /\ UNCHANGED <<now, qvars, dvars, settled, invoked>>
     ELSE LET reset == circuitState = "OPEN" /\ shouldAttemptReset
              cs == IF reset THEN "HALF_OPEN" ELSE circuitState
          IN /\ circuitState' = cs
             /\ successCount' = IF reset THEN 0 ELSE successCount
             /\ processQueue(push(queue, QueuedRequest(nextId + 1, now)), cs, d)
             /\ UNCHANGED <<overloaded, failureCount, lastFailureTime>>
  /\ UNCHANGED late

\* enqueueRequest(handler) called by some caller
enqueueRequest ==
  /\ \E d \in ClockSteps : enqueue(d)
  /\ UNCHANGED <<dbUp, hvars, direct>>
  /\ UNCHANGED wvars

\* ... by one of the MaxItems callers the model follows
Enqueue ==
  /\ nextId < MaxItems
  /\ enqueueRequest

\* onSuccess with `>` for `>=` in the threshold test
onSuccess_strict ==
  /\ failureCount' = 0
  /\ IF circuitState = "HALF_OPEN"
     THEN IF successCount + 1 > SUCCESS_THRESHOLD
          THEN /\ circuitState' = "CLOSED"
               /\ successCount' = 0
               /\ lastFailureTime' = 0
          ELSE /\ successCount' = successCount + 1
               /\ UNCHANGED <<circuitState, lastFailureTime>>
     ELSE UNCHANGED <<circuitState, successCount, lastFailureTime>>

\* onSuccess counting successes in every breaker state
onSuccess_countsAlways ==
  /\ failureCount' = 0
  /\ IF circuitState = "HALF_OPEN" /\ successCount + 1 >= SUCCESS_THRESHOLD
     THEN /\ circuitState' = "CLOSED"
          /\ successCount' = 0
          /\ lastFailureTime' = 0
     ELSE /\ successCount' = successCount + 1
          /\ UNCHANGED <<circuitState, lastFailureTime>>

\* onSuccess()
onSuccess ==
  /\ failureCount' = 0
  /\ IF circuitState = "HALF_OPEN"
     THEN IF successCount + 1 >= SUCCESS_THRESHOLD
          THEN /\ circuitState' = "CLOSED"
               /\ successCount' = 0
               /\ lastFailureTime' = 0
          ELSE /\ successCount' = successCount + 1
               /\ UNCHANGED <<circuitState, lastFailureTime>>
     ELSE UNCHANGED <<circuitState, successCount, lastFailureTime>>

\* onFailure with `>` for `>=` in the threshold test
onFailure_strict ==
  /\ failureCount' = failureCount + 1
  /\ lastFailureTime' = now
  /\ IF circuitState = "CLOSED" /\ failureCount + 1 > FAILURE_THRESHOLD
     THEN /\ circuitState' = "OPEN"
          /\ successCount' = 0
     ELSE IF circuitState = "HALF_OPEN"
          THEN /\ circuitState' = "OPEN"
               /\ successCount' = 0
          ELSE UNCHANGED <<circuitState, successCount>>

\* onFailure without the assignment of lastFailureTime
onFailure_noTimestamp ==
  /\ failureCount' = failureCount + 1
  /\ UNCHANGED lastFailureTime
  /\ IF circuitState = "CLOSED" /\ failureCount + 1 >= FAILURE_THRESHOLD
     THEN /\ circuitState' = "OPEN"
          /\ successCount' = 0
     ELSE IF circuitState = "HALF_OPEN"
          THEN /\ circuitState' = "OPEN"
               /\ successCount' = 0
          ELSE UNCHANGED <<circuitState, successCount>>

\* onFailure(error)
onFailure ==
  /\ failureCount' = failureCount + 1
  /\ lastFailureTime' = now
  /\ IF circuitState = "CLOSED" /\ failureCount + 1 >= FAILURE_THRESHOLD
     THEN /\ circuitState' = "OPEN"
          /\ successCount' = 0
     ELSE IF circuitState = "HALF_OPEN"
          THEN /\ circuitState' = "OPEN"
               /\ successCount' = 0
          ELSE UNCHANGED <<circuitState, successCount>>

\* processRequest after its await: the handler's promise won the race and resolved.
\* The timer is due REQUEST_TIMEOUT after it was set: a handler completing at a later
\* reading of the clock has lost the race, at that very reading either may win.
HandlerSuccess ==
  /\ pc = "await"
  /\ now - started <= REQUEST_TIMEOUT
  /\ dbUp
  /\ onSuccess
  /\ settled' = Append(settled, Settle(request.id, "result"))
  /\ pc' = "resume"
  /\ UNCHANGED <<now, dbUp, queue, isProcessing, request, started, retryTimers, late,
                 nextId, invoked, overloaded, hvars, direct>>
  /\ UNCHANGED wvars

\* processRequest after its await: the handler's promise won the race and rejected
HandlerFailure ==
  /\ pc = "await"
  /\ now - started <= REQUEST_TIMEOUT
  /\ ~dbUp
  /\ onFailure
  /\ settled' = Append(settled, Settle(request.id, "error"))
  /\ pc' = "resume"
  /\ UNCHANGED <<now, dbUp, queue, isProcessing, request, started, retryTimers, late,
                 nextId, invoked, overloaded, hvars, direct>>
  /\ UNCHANGED wvars

\* HandlerTimeout rejecting the waiting requests along with the one that timed out
HandlerTimeout_rejectsQueue ==
  /\ pc = "await"
  /\ now - started >= REQUEST_TIMEOUT
  /\ onFailure
  /\ settled' = Append(settled, Settle(request.id, "timeout")) \o RejectAll(queue, "timeout")
  /\ queue' = <<>>
  /\ late' = late \cup {request.id}
  /\ pc' = "resume"
  /\ UNCHANGED <<now, dbUp, isProcessing, request, started, retryTimers,
                 nextId, invoked, overloaded, hvars, direct>>
  /\ UNCHANGED wvars

\* HandlerTimeout without the call of onFailure
HandlerTimeout_unrecorded ==
  /\ pc = "await"
  /\ now - started >= REQUEST_TIMEOUT
  /\ settled' = Append(settled, Settle(request.id, "timeout"))
  /\ late' = late \cup {request.id}
  /\ pc' = "resume"
  /\ UNCHANGED <<now, dbUp, qvars, request, started, retryTimers,
                 nextId, invoked, overloaded, hvars, direct>>
  /\ UNCHANGED wvars

\* processRequest after its await: timeoutPromise won the race; the handler runs on
HandlerTimeout ==
  /\ pc = "await"
  /\ now - started >= REQUEST_TIMEOUT
  /\ onFailure
  /\ settled' = Append(settled, Settle(request.id, "timeout"))
  /\ late' = late \cup {request.id}
  /\ pc' = "resume"
  /\ UNCHANGED <<now, dbUp, queue, isProcessing, request, started, retryTimers,
                 nextId, invoked, overloaded, hvars, direct>>
  /\ UNCHANGED wvars

\* LateCompletion counted as a success by the breaker
LateCompletion_counted ==
  /\ \E i \in late : late' = late \ {i}
  /\ onSuccess
  /\ UNCHANGED <<now, dbUp, queue, isProcessing, dvars, nextId, settled, invoked,
                 overloaded, hvars, direct>>
  /\ UNCHANGED wvars
\* a handler that lost the race completes: Promise.race ignores it
LateCompletion ==
  /\ \E i \in late : late' = late \ {i}
  /\ UNCHANGED <<now, dbUp, qvars, dvars, nextId, settled, invoked, overloaded,
                 hvars, direct>>
  /\ UNCHANGED wvars

\* ResumeDrain pausing whenever the breaker is not CLOSED
ResumeDrain_pausesHalfOpen ==
  /\ pc = "resume"
  /\ IF circuitState # "CLOSED"
     THEN /\ Finally(queue, circuitState)
          /\ UNCHANGED <<now, queue, settled, invoked>>
     ELSE \E d \in ClockSteps : RunLoop(queue, circuitState, d)
  /\ UNCHANGED <<dbUp, circuitState, failureCount, successCount, lastFailureTime,
                 late, nextId, overloaded, hvars, direct>>
  /\ UNCHANGED wvars
\* processQueue after `await this.processRequest(request)`
ResumeDrain ==
  /\ pc = "resume"
  /\ IF circuitState = "OPEN"
     THEN /\ Finally(queue, circuitState)
          /\ UNCHANGED <<now, queue, settled, invoked>>
     ELSE \E d \in ClockSteps : RunLoop(queue, circuitState, d)
  /\ UNCHANGED <<dbUp, circuitState, failureCount, successCount, lastFailureTime,
                 late, nextId, overloaded, hvars, direct>>
  /\ UNCHANGED wvars

\* resetCircuit without the clearing of lastFailureTime
ResetCircuit_keepsFailureTime ==
  /\ circuitState' = "CLOSED"
  /\ failureCount' = 0
  /\ successCount' = 0
  /\ UNCHANGED <<now, dbUp, queue, isProcessing, lastFailureTime, dvars, ivars, hvars, direct>>
  /\ UNCHANGED wvars

\* resetCircuit()
ResetCircuit ==
  /\ circuitState' = "CLOSED"
  /\ failureCount' = 0
  /\ successCount' = 0
  /\ lastFailureTime' = 0
  /\ UNCHANGED <<now, dbUp, queue, isProcessing, dvars, ivars, hvars, direct>>
  /\ UNCHANGED wvars

\* the clock advances
Tick ==
  /\ now < MaxTime
  /\ now' = now + 1
  /\ UNCHANGED <<dbUp, qvars, dvars, ivars, hvars, direct>>
  /\ UNCHANGED wvars

\* the downstream goes down / comes back
DownstreamFails ==
  /\ dbUp
  /\ dbUp' = FALSE
  /\ UNCHANGED <<now, qvars, dvars, ivars, hvars, direct>>
  /\ UNCHANGED wvars

DownstreamRecovers ==
  /\ ~dbUp
  /\ dbUp' = TRUE
  /\ UNCHANGED <<now, qvars, dvars, ivars, hvars, direct>>
  /\ UNCHANGED wvars

\* ---- DatabaseHealthMonitor ----

\* checkHealth() up to its await: the probe is issued
checkHealth ==
  /\ probeSeq < MaxChecks
  /\ probeSeq' = probeSeq + 1
  /\ lastCheck' = now
  /\ totalChecks' = totalChecks + 1
  /\ probes' = probes \cup {[n |-> probeSeq + 1, at |-> now]}
  /\ UNCHANGED <<healthy, lastSuccess, lastFailure, consecutiveFailures,
                 consecutiveSuccesses, failedChecks>>

\* start() without the test of this.checkInterval
Start_noGuard ==
  /\ checkHealth
  /\ checkInterval' = checkInterval + 1
  /\ UNCHANGED <<now, dbUp, qvars, dvars, ivars, direct>>
  /\ UNCHANGED wvars

\* start()
Start ==
  /\ IF checkInterval > 0
     THEN UNCHANGED hvars
     ELSE /\ checkHealth
          /\ checkInterval' = checkInterval + 1
  /\ UNCHANGED <<now, dbUp, qvars, dvars, ivars, direct>>
  /\ UNCHANGED wvars

\* stop()
Stop ==
  /\ checkInterval' = 0
  /\ UNCHANGED <<healthy, lastCheck, lastSuccess, lastFailure, consecutiveFailures,
                 consecutiveSuccesses, totalChecks, failedChecks, probes, probeSeq>>
  /\ UNCHANGED <<now, dbUp, qvars, dvars, ivars, direct>>
  /\ UNCHANGED wvars

\* the setInterval callback still firing after clearInterval
IntervalTick_uncancelled ==
  /\ now - lastCheck >= CHECK_INTERVAL_MS
  /\ checkHealth
  /\ UNCHANGED checkInterval
  /\ UNCHANGED <<now, dbUp, qvars, dvars, ivars, direct>>
  /\ UNCHANGED wvars
\* the setInterval callback
IntervalTick ==
  /\ checkInterval > 0
  /\ now - lastCheck >= CHECK_INTERVAL_MS
  /\ checkHealth
  /\ UNCHANGED checkInterval
  /\ UNCHANGED <<now, dbUp, qvars, dvars, ivars, direct>>
  /\ UNCHANGED wvars

\* onHealthCheckSuccess without the reset of consecutiveFailures
onHealthCheckSuccess_noReset ==
  /\ healthy' = TRUE
  /\ lastSuccess' = now
  /\ consecutiveSuccesses' = consecutiveSuccesses + 1
  /\ UNCHANGED <<consecutiveFailures, lastFailure, failedChecks>>

\* onHealthCheckSuccess()
onHealthCheckSuccess ==
  /\ healthy' = TRUE
  /\ lastSuccess' = now
  /\ consecutiveSuccesses' = consecutiveSuccesses + 1
  /\ consecutiveFailures' = 0
  /\ UNCHANGED <<lastFailure, failedChecks>>

\* onHealthCheckFailure marking unhealthy from the second failure in a row only
onHealthCheckFailure_afterTwo ==
  /\ healthy' = (healthy /\ consecutiveFailures = 0)
  /\ lastFailure' = now
  /\ consecutiveFailures' = consecutiveFailures + 1
  /\ consecutiveSuccesses' = 0
  /\ failedChecks' = failedChecks + 1
  /\ UNCHANGED lastSuccess

\* onHealthCheckFailure(error)
onHealthCheckFailure ==
  /\ healthy' = FALSE
  /\ lastFailure' = now
  /\ consecutiveFailures' = consecutiveFailures + 1
  /\ consecutiveSuccesses' = 0
  /\ failedChecks' = failedChecks + 1
  /\ UNCHANGED lastSuccess

\* checkHealth after its await: the probe query won the race and resolved
ProbeSuccess ==
  /\ dbUp
  /\ \E p \in probes : probes' = probes \ {p}
  /\ onHealthCheckSuccess
  /\ UNCHANGED <<now, dbUp, qvars, dvars, ivars, direct, lastCheck, totalChecks,
                 checkInterval, probeSeq>>
  /\ UNCHANGED wvars

\* ProbeError opening the breaker as well
ProbeError_tripsBreaker ==
  /\ ~dbUp
  /\ \E p \in probes : probes' = probes \ {p}
  /\ onHealthCheckFailure
  /\ circuitState' = "OPEN"
  /\ UNCHANGED <<now, dbUp, queue, isProcessing, failureCount, successCount,
                 lastFailureTime, dvars, ivars, direct, lastCheck, totalChecks,
                 checkInterval, probeSeq>>
  /\ UNCHANGED wvars

\* checkHealth after its await: the probe query won the race and rejected
ProbeError ==
  /\ ~dbUp
  /\ \E p \in probes : probes' = probes \ {p}
  /\ onHealthCheckFailure
  /\ UNCHANGED <<now, dbUp, qvars, dvars, ivars, direct, lastCheck, totalChecks,
                 checkInterval, probeSeq>>
  /\ UNCHANGED wvars

\* ProbeTimeout dropping the probe without recording a failure
ProbeTimeout_unrecorded ==
  /\ \E p \in probes :
       /\ now - p.at >= HEALTH_CHECK_TIMEOUT_MS
       /\ probes' = probes \ {p}
  /\ UNCHANGED <<healthy, lastSuccess, lastFailure, consecutiveFailures,
                 consecutiveSuccesses, failedChecks>>
  /\ UNCHANGED <<now, dbUp, qvars, dvars, ivars, direct, lastCheck, totalChecks,
                 checkInterval, probeSeq>>
  /\ UNCHANGED wvars
\* checkHealth after its await: timeoutPromise won the race
ProbeTimeout ==
  /\ \E p \in probes :
       /\ now - p.at >= HEALTH_CHECK_TIMEOUT_MS
       /\ probes' = probes \ {p}
  /\ onHealthCheckFailure
  /\ UNCHANGED <<now, dbUp, qvars, dvars, ivars, direct, lastCheck, totalChecks,
                 checkInterval, probeSeq>>
  /\ UNCHANGED wvars

\* resetStats()
resetStats ==
  /\ totalChecks' = 0
  /\ failedChecks' = 0
  /\ UNCHANGED <<healthy, lastCheck, lastSuccess, lastFailure, consecutiveFailures,
                 consecutiveSuccesses, checkInterval, probes, probeSeq>>
  /\ UNCHANGED <<now, dbUp, qvars, dvars, ivars, direct>>
  /\ UNCHANGED wvars

\* getStatus().uptimePercent in hundredths of a percent: Math.round(x * 100) / 100
\* rounds x * 100 to the nearest integer, halves upwards
uptimePercent ==
  IF totalChecks > 0
  THEN (2 * (totalChecks - failedChecks) * 10000 + totalChecks) \div (2 * totalChecks)
  ELSE 10000
\* timeSinceDown(); a null lastFailure is 0
timeSinceDown ==
  IF healthy THEN 0
  ELSE IF lastFailure # 0 THEN now - lastFailure ELSE 0
isDbHealthy_negated == ~healthy
\* isDbHealthy()
isDbHealthy == healthy

\* ---- routing policy (db.ts) ----

\* safeQuery(text, params)
SafeQuery ==
  /\ IF isDbHealthy
     THEN /\ direct < MaxDirect
          /\ direct' = direct + 1
          /\ UNCHANGED <<now, qvars, dvars, ivars>>
     ELSE /\ nextId < MaxRouted
          /\ \E d \in ClockSteps : enqueue(d)
          /\ UNCHANGED direct
  /\ UNCHANGED <<dbUp, hvars>>
  /\ UNCHANGED wvars

\* query() called on the fast path returns its rows
DirectSuccess ==
  /\ direct > 0
  /\ dbUp
  /\ direct' = direct - 1
  /\ UNCHANGED <<now, dbUp, qvars, dvars, ivars, hvars>>
  /\ UNCHANGED wvars

\* DirectFailure reporting the failure to the breaker
DirectFailure_counted ==
  /\ direct > 0
  /\ ~dbUp
  /\ direct' = direct - 1
  /\ onFailure
  /\ UNCHANGED <<now, dbUp, queue, isProcessing, dvars, ivars, hvars>>
  /\ UNCHANGED wvars

\* query() called on the fast path throws
DirectFailure ==
  /\ direct > 0
  /\ ~dbUp
  /\ direct' = direct - 1
  /\ UNCHANGED <<now, dbUp, qvars, dvars, ivars, hvars>>
  /\ UNCHANGED wvars

\* ---- startup (db.ts) ----

\* the delays waitForPostgres is called with
Delays == {1, 2}

\* waitForPostgres: the test of its while loop with r retries left, up to the next await
whileRetries(r) ==
  IF r > 0
  THEN /\ wpc' = "query"
       /\ wAttempts' = wAttempts + 1
  ELSE /\ wpc' = "threw"
       /\ UNCHANGED wAttempts

\* waitForPostgres(retries, delay) is called
waitForPostgres ==
  /\ wpc = "init"
  /\ \E r \in 0..MaxRetries, dl \in Delays :
       /\ wGiven' = [retries |-> r, delay |-> dl]
       /\ retries' = r
       /\ whileRetries(r)
  /\ UNCHANGED <<now, dbUp, qvars, dvars, ivars, hvars, direct, wSlept,
                 isShuttingDown, exitCode>>

\* await pool.query('SELECT NOW()') resolved: return
AttemptSuccess ==
  /\ wpc = "query"
  /\ dbUp
  /\ wpc' = "returned"
  /\ UNCHANGED <<now, dbUp, qvars, dvars, ivars, hvars, direct, wGiven, retries,
                 wAttempts, wSlept, isShuttingDown, exitCode>>

\* await pool.query('SELECT NOW()') rejected: the catch block up to its await
AttemptFailure ==
  /\ wpc = "query"
  /\ ~dbUp
  /\ wpc' = "sleep"
  /\ UNCHANGED <<now, dbUp, qvars, dvars, ivars, hvars, direct, wGiven, retries,
                 wAttempts, wSlept, isShuttingDown, exitCode>>

\* RetryDelayDone without `retries--`
RetryDelayDone_noDecrement ==
  /\ wpc = "sleep"
  /\ wSlept' = wSlept + wGiven.delay
  /\ UNCHANGED retries
  /\ whileRetries(retries)
  /\ UNCHANGED <<now, dbUp, qvars, dvars, ivars, hvars, direct, wGiven,
                 isShuttingDown, exitCode>>

\* the delay timer fired: retries-- and the next round of the loop
RetryDelayDone ==
  /\ wpc = "sleep"
  /\ wSlept' = wSlept + wGiven.delay
  /\ retries' = retries - 1
  /\ whileRetries(retries - 1)
  /\ UNCHANGED <<now, dbUp, qvars, dvars, ivars, hvars, direct, wGiven,
                 isShuttingDown, exitCode>>
\* ---- process start and shutdown (index.ts) ----

\* the catch block of start() letting the server come up all the same
startCatch_swallows ==
  /\ wpc = "threw"
  /\ checkHealth
  /\ checkInterval' = checkInterval + 1
  /\ wpc' = "listen"
  /\ UNCHANGED <<now, dbUp, qvars, dvars, ivars, direct, wGiven, retries, wAttempts,
                 wSlept, isShuttingDown, exitCode>>

\* start() after `await waitForPostgres()` returned: dbHealthMonitor.start() and the
\* call of fastify.listen, up to its await
startContinue ==
  /\ wpc = "returned"
  /\ IF checkInterval > 0
     THEN UNCHANGED hvars
     ELSE /\ checkHealth
          /\ checkInterval' = checkInterval + 1
  /\ wpc' = "listen"
  /\ UNCHANGED <<now, dbUp, qvars, dvars, ivars, direct, wGiven, retries, wAttempts,
                 wSlept, isShuttingDown, exitCode>>

\* start(): `await waitForPostgres()` threw, the catch block calls process.exit(1)
startCatch ==
  /\ wpc = "threw"
  /\ exitCode' = 1
  /\ UNCHANGED <<now, dbUp, qvars, dvars, ivars, hvars, direct, wpc, wGiven, retries,
                 wAttempts, wSlept, isShuttingDown>>

\* start(): `await fastify.listen(...)` resolved
ListenSuccess ==
  /\ wpc = "listen"
  /\ wpc' = "listening"
  /\ UNCHANGED <<now, dbUp, qvars, dvars, ivars, hvars, direct, wGiven, retries,
                 wAttempts, wSlept, isShuttingDown, exitCode>>

\* start(): `await fastify.listen(...)` rejected, the catch block calls process.exit(1)
ListenFailure ==
  /\ wpc = "listen"
  /\ exitCode' = 1
  /\ UNCHANGED <<now, dbUp, qvars, dvars, ivars, hvars, direct, wpc, wGiven, retries,
                 wAttempts, wSlept, isShuttingDown>>

\* gracefulShutdown(signal) up to its first await: dbHealthMonitor.stop()
gracefulShutdown ==
  /\ ~isShuttingDown
  /\ isShuttingDown' = TRUE
  /\ checkInterval' = 0
  /\ UNCHANGED <<healthy, lastCheck, lastSuccess, lastFailure, consecutiveFailures,
                 consecutiveSuccesses, totalChecks, failedChecks, probes, probeSeq>>
  /\ UNCHANGED <<now, dbUp, qvars, dvars, ivars, direct, wpc, wGiven, retries,
                 wAttempts, wSlept, exitCode>>

\* gracefulShutdown: process.exit(0), at the end of its try block, in its catch block
\* or by the force-exit timer
ShutdownExit ==
  /\ isShuttingDown
  /\ exitCode' = 0
  /\ UNCHANGED <<now, dbUp, qvars, dvars, ivars, hvars, direct, wpc, wGiven, retries,
                 wAttempts, wSlept, isShuttingDown>>
Init ==
  /\ now = 1
  /\ dbUp = TRUE
  /\ queue = <<>>
  /\ isProcessing = FALSE
  /\ circuitState = "CLOSED"
  /\ failureCount = 0
  /\ successCount = 0
  /\ lastFailureTime = 0
  /\ pc = "idle"
  /\ request = None
  /\ started = 0
  /\ retryTimers = 0
  /\ late = {}
  /\ nextId = 0
  /\ settled = <<>>
  /\ invoked = [i \in Ids |-> 0]
  /\ overloaded = {}
  /\ healthy = TRUE
  /\ lastCheck = 1
  /\ lastSuccess = 1
  /\ lastFailure = 0
  /\ consecutiveFailures = 0
  /\ consecutiveSuccesses = 0
  /\ totalChecks = 0
  /\ failedChecks = 0
  /\ checkInterval = 0
  /\ probes = {}
  /\ probeSeq = 0
  /\ direct = 0
  /\ wpc = "init"
  /\ wGiven = [retries |-> 0, delay |-> 0]
  /\ retries = 0
  /\ wAttempts = 0
  /\ wSlept = 0
  /\ isShuttingDown = FALSE
  /\ exitCode = -1

\* ---- the event loop ----
\* The continuation of `await this.processRequest(request)` is a microtask queued when
\* processRequest returns: Node runs it before any timer, I/O callback or new call, and
\* before the continuation of the caller whose request was just settled.  So while a
\* drain loop is about to resume nothing else runs.
Quiet == pc # "resume"

\* the queue alone, called through the exported enqueueRequest
NextLoop ==
  \/ ResumeDrain
  \/ Quiet /\ Enqueue
  \/ HandlerSuccess
  \/ HandlerFailure
  \/ HandlerTimeout
  \/ Quiet /\ LateCompletion
  \/ Quiet /\ Tick
  \/ Quiet /\ DownstreamFails
  \/ Quiet /\ DownstreamRecovers

Next ==
  \/ NextLoop
  \/ Quiet /\ ResetCircuit

Spec == Init /\ [][Next]_vars

\* What the event loop guarantees: a drain loop that can resume resumes, a race that
\* can be decided is decided, and the clock advances.  Nothing makes callers arrive,
\* and nobody has to call resetCircuit.
Fairness ==
  /\ WF_vars(ResumeDrain)
  /\ WF_vars(HandlerSuccess \/ HandlerFailure \/ HandlerTimeout)
  /\ WF_vars(Quiet /\ LateCompletion)
  /\ WF_vars(Quiet /\ Tick)

SpecFair == Init /\ [][NextLoop]_vars /\ Fairness

\* callers go through safeQuery while the monitor probes the downstream
NextRouted ==
  \/ ResumeDrain
  \/ Quiet /\ SafeQuery
  \/ Quiet /\ DirectSuccess
  \/ Quiet /\ DirectFailure
  \/ HandlerSuccess
  \/ HandlerFailure
  \/ HandlerTimeout
  \/ Quiet /\ Start
  \/ Quiet /\ IntervalTick
  \/ Quiet /\ ProbeSuccess
  \/ Quiet /\ ProbeError
  \/ Quiet /\ ProbeTimeout
  \/ Quiet /\ Tick
  \/ Quiet /\ DownstreamFails
  \/ Quiet /\ DownstreamRecovers

SpecRouted == Init /\ [][NextRouted]_vars

\* ... the monitor's timer fires, its probes are decided, and callers keep arriving
FairnessRouted ==
  /\ WF_vars(ResumeDrain)
  /\ WF_vars(HandlerSuccess \/ HandlerFailure \/ HandlerTimeout)
  /\ WF_vars(Quiet /\ Tick)
  /\ WF_vars(Quiet /\ IntervalTick)
  /\ WF_vars(Quiet /\ (ProbeSuccess \/ ProbeError \/ ProbeTimeout))
  /\ WF_vars(Quiet /\ (DirectSuccess \/ DirectFailure))
  /\ WF_vars(Quiet /\ SafeQuery)

SpecRoutedFair == SpecRouted /\ FairnessRouted

\* the whole: callers through safeQuery, the monitor started and stopped, and the
\* operator's resetCircuit
NextSystem ==
  \/ NextRouted
  \/ Quiet /\ Stop
  \/ Quiet /\ ResetCircuit

SpecSystem == Init /\ [][NextSystem]_vars

\* the monitor alone: started, stopped, its timer firing and its probes being decided
NextMonitor ==
  \/ Start
  \/ Stop
  \/ IntervalTick
  \/ ProbeSuccess
  \/ ProbeError
  \/ ProbeTimeout
  \/ Tick
  \/ DownstreamFails
  \/ DownstreamRecovers

SpecMonitor == Init /\ [][NextMonitor]_vars

\* the monitor with resetStats called at any time
NextMonitorStats ==
  \/ NextMonitor
  \/ resetStats

SpecMonitorStats == Init /\ [][NextMonitorStats]_vars
\* startup: waitForPostgres polling a downstream that comes and goes
NextStartup ==
  \/ waitForPostgres
  \/ AttemptSuccess
  \/ AttemptFailure
  \/ RetryDelayDone
  \/ DownstreamFails
  \/ DownstreamRecovers

\* every query is answered or refused in the end, and the delay timer fires
FairnessStartup ==
  /\ WF_vars(AttemptSuccess \/ AttemptFailure)
  /\ WF_vars(RetryDelayDone)

SpecStartup == Init /\ [][NextStartup]_vars /\ FairnessStartup

\* the process runs and start() is not about to continue after waitForPostgres
Calm == exitCode = -1 /\ wpc \notin {"returned", "threw"}

\* the process: start(), the monitor it starts, and the shutdown signals
NextProcess ==
  \/ Calm /\ waitForPostgres
  \/ Calm /\ AttemptSuccess
  \/ Calm /\ AttemptFailure
  \/ Calm /\ RetryDelayDone
  \/ exitCode = -1 /\ startContinue
  \/ exitCode = -1 /\ startCatch
  \/ Calm /\ ListenSuccess
  \/ Calm /\ ListenFailure
  \/ Calm /\ gracefulShutdown
  \/ Calm /\ ShutdownExit
  \/ Calm /\ IntervalTick
  \/ Calm /\ ProbeSuccess
  \/ Calm /\ ProbeError
  \/ Calm /\ ProbeTimeout
  \/ Calm /\ Tick
  \/ Calm /\ DownstreamFails
  \/ Calm /\ DownstreamRecovers

SpecProcess == Init /\ [][NextProcess]_vars
\* ---- what the claims speak of ----

ExpiredKinds == {"expired", "queuedTooLong"}
ExecutedKinds == {"result", "error", "timeout"}
SettledIds == {settled[a].id : a \in 1..Len(settled)}
QueuedIds == {queue[a].id : a \in 1..Len(queue)}
Accepted == (1..nextId) \ overloaded
Outcome(i) == {settled[a].kind : a \in {b \in 1..Len(settled) : settled[b].id = i}}
\* the step is processRequest settling its request
ExecSucceeded ==
  /\ Len(settled') = Len(settled) + 1
  /\ settled'[Len(settled')].kind = "result"
ExecFailed ==
  /\ Len(settled') = Len(settled) + 1
  /\ settled'[Len(settled')].kind \in {"error", "timeout"}

\* C1: every accepted item is settled at most once, by a result, an execution error, a
\* timeout or an expiry; an expired item was never executed, an executed one is settled
\* by its execution only, and no handler is invoked twice.
C1_SettledAtMostOnce ==
  /\ \A a, b \in 1..Len(settled) : settled[a].id = settled[b].id => a = b
  /\ \A a \in 1..Len(settled) :
       /\ settled[a].id \in Accepted
       /\ settled[a].kind \in ExpiredKinds \cup ExecutedKinds
       /\ settled[a].kind \in ExpiredKinds => invoked[settled[a].id] = 0
       /\ settled[a].kind \in ExecutedKinds => invoked[settled[a].id] = 1
  /\ \A i \in Ids : invoked[i] <= 1
  /\ \A i \in Ids : invoked[i] = 1 => i \in Accepted

C1_Witness ==
  /\ \E a \in 1..Len(settled) : settled[a].kind = "queuedTooLong"
  /\ \E a \in 1..Len(settled) : settled[a].kind = "expired"
  /\ \E a \in 1..Len(settled) : settled[a].kind = "timeout"
  /\ \E a \in 1..Len(settled) : settled[a].kind = "result"

\* C4: FIFO law. Items leave the queue and are settled in the order of their enqueue
\* calls: the settlements are in enqueue order, everything settled or being executed
\* was enqueued before everything still queued, and the queue holds its items in
\* enqueue order.
C4_FifoOrder ==
  /\ \A a, b \in 1..Len(settled) : a < b => settled[a].id < settled[b].id
  /\ \A a, b \in 1..Len(queue) : a < b => queue[a].id < queue[b].id
  /\ \A i \in SettledIds : \A j \in QueuedIds : i < j
  /\ request # None => /\ \A j \in QueuedIds : request.id < j
                       /\ \A i \in SettledIds : i <= request.id
  /\ pc = "await" => request.id \notin SettledIds

C4_Witness ==
  /\ Len(settled) >= 3
  /\ \E a \in 1..Len(settled) : settled[a].kind \in ExpiredKinds
  /\ \E a \in 1..Len(settled) : settled[a].kind = "error"
  /\ Len(queue) >= 1

\* C5: an enqueue call made with the queue at capacity is rejected with the overloaded
\* error at once and changes nothing of the queue, the breaker or the drain loop.
C5_OverloadedRejects ==
  [][(nextId' = nextId + 1 /\ Len(queue) >= MAX_QUEUE_SIZE)
       => /\ overloaded' = overloaded \cup {nextId'}
          /\ UNCHANGED <<queue, circuitState, failureCount, successCount,
                         lastFailureTime, isProcessing, pc, request, settled, invoked>>]_vars

C5_Witness ==
  /\ nextId \in overloaded
  /\ Len(queue) = MAX_QUEUE_SIZE
  /\ settled # <<>>

ExecLog == SelectSeq(settled, LAMBDA e : e.kind \in ExecutedKinds)
\* the last n executions all ended in one of the kinds ks
LastExecs(log, n, ks) ==
  /\ Len(log) >= n
  /\ \A a \in (Len(log) - n + 1)..Len(log) : log[a].kind \in ks

\* C7: in CLOSED every failed execution adds one to failureCount, and the breaker opens
\* on that failure exactly when the count reaches FAILURE_THRESHOLD, that is after
\* FAILURE_THRESHOLD failed executions in a row; any successful execution zeroes the
\* count; below the threshold the breaker stays CLOSED.
C7_ClosedOpensAtThreshold ==
  /\ [](circuitState = "CLOSED" => failureCount < FAILURE_THRESHOLD)
  /\ [][(ExecFailed /\ circuitState = "CLOSED")
          => /\ failureCount' = failureCount + 1
             /\ circuitState' = "OPEN" <=> failureCount' = FAILURE_THRESHOLD
             /\ circuitState' \in {"CLOSED", "OPEN"}
             /\ circuitState' = "OPEN"
                  => LastExecs(ExecLog', FAILURE_THRESHOLD, {"error", "timeout"})]_vars
  /\ [][ExecSucceeded => failureCount' = 0]_vars
  /\ [][(circuitState = "CLOSED" /\ circuitState' = "OPEN") => ExecFailed]_vars

C7_Witness ==
  /\ circuitState = "OPEN"
  /\ failureCount = FAILURE_THRESHOLD
  /\ \E a \in 1..Len(settled) : settled[a].kind = "result"
  /\ LastExecs(ExecLog, FAILURE_THRESHOLD, {"error", "timeout"})

C9_ExpiredNeverExecuted ==
  /\ [][\A k \in 1..Len(queue) :
          LET r == queue[k]
          IN r.id \notin {queue'[a].id : a \in 1..Len(queue')}
               => IF now' - r.timestamp > MAX_REQUEST_AGE
                  THEN /\ \E a \in 1..Len(settled') :
                            /\ settled'[a].id = r.id
                            /\ settled'[a].kind \in ExpiredKinds
                       /\ invoked'[r.id] = 0
                       /\ request' # r
                  ELSE /\ request' = r
                       /\ invoked'[r.id] = 1
                       /\ r.id \notin {settled'[a].id : a \in 1..Len(settled')}]_vars
  /\ [][invoked' # invoked
          => /\ now' - request'.timestamp <= MAX_REQUEST_AGE
             /\ invoked' = [invoked EXCEPT ![request'.id] = 1]]_vars
  /\ [](\A a \in 1..Len(settled) :
          settled[a].kind \in ExpiredKinds => invoked[settled[a].id] = 0)

C9_Witness ==
  /\ \E a \in 1..Len(settled) : settled[a].kind \in ExpiredKinds
  /\ pc = "await"
  /\ now - request.timestamp = MAX_REQUEST_AGE

\* C10: safeQuery runs the query directly, leaving the queue, the breaker and the drain
\* loop untouched, exactly when the monitor reports healthy at the call; otherwise the
\* call is an enqueue call, which the queue accepts or rejects as overloaded.
C10_RouteByHealth ==
  [][/\ SafeQuery => (direct' = direct + 1) # (nextId' = nextId + 1)
     /\ direct' = direct + 1
          => /\ healthy
             /\ UNCHANGED <<qvars, dvars, ivars>>
     /\ nextId' = nextId + 1
          => /\ ~healthy
             /\ direct' = direct
             /\ \/ nextId' \in overloaded'
                \/ nextId' \in {queue'[a].id : a \in 1..Len(queue')}
                \/ request'.id = nextId'
                \/ \E a \in 1..Len(settled') : settled'[a].id = nextId']_vars

C10_Witness ==
  /\ direct > 0
  /\ ~healthy
  /\ nextId > 1
  /\ Len(settled) > 0

\* C2: every item enqueue accepted is eventually settled, with no further enqueue call
\* needed and whatever the breaker state.
C2_EverySettled ==
  \A i \in Ids : (i \in Accepted) ~> (i \in SettledIds)

\* C3: automatic recovery. Once the downstream stays up, and the monitor reports it
\* healthy as every probe succeeds, the queue is eventually empty with the breaker
\* CLOSED, without any call of resetCircuit.
C3_AutomaticRecovery ==
  []([](dbUp /\ healthy) => <>(Len(queue) = 0 /\ circuitState = "CLOSED"))

\* C6: while the breaker is OPEN and less than CIRCUIT_RESET_TIMEOUT has passed since
\* the last failure, no handler is invoked.
C6_NoExecutionWhileOpen ==
  [][(/\ circuitState = "OPEN"
      /\ circuitState' = "OPEN"
      /\ lastFailureTime # 0
      /\ now' - lastFailureTime < CIRCUIT_RESET_TIMEOUT)
       => invoked' = invoked]_vars

\* C11: the queue never holds more than MAX_QUEUE_SIZE items.
C11_QueueWithinCapacity == Len(queue) <= MAX_QUEUE_SIZE

C11_Witness ==
  /\ Len(queue) = MAX_QUEUE_SIZE
  /\ isProcessing
  /\ overloaded # {}
  /\ settled = <<>>

\* n enqueue calls were made from the initial state (queue empty, no drain loop running)
\* and no request was settled yet, as after calls made back to back
BackToBack(n) ==
  /\ nextId = n
  /\ settled = <<>>

\* C12 as stated: with capacity 2, the third of three enqueue calls made back to back
\* from the initial state is rejected as overloaded at its call.
C12_ThirdOverloaded == BackToBack(3) => 3 \in overloaded

\* C12 amended: enqueue calls made back to back from the initial state: the first call
\* takes its item off the queue and invokes its handler, the second and third are
\* accepted and wait in the queue, and the fourth is rejected as overloaded at its
\* call; every execution that completes while the tasks fail settles its item with
\* the failure and adds one to the breaker's failureCount.
C12_FourthOverloaded ==
  /\ [](\A n \in 1..MaxItems : BackToBack(n) =>
          /\ invoked[1] = 1
          /\ pc = "await"
          /\ request.id = 1
          /\ QueuedIds = 2..(IF n < MAX_QUEUE_SIZE + 1 THEN n ELSE MAX_QUEUE_SIZE + 1)
          /\ overloaded = (MAX_QUEUE_SIZE + 2)..n
          /\ \A i \in 2..n : invoked[i] = 0)
  /\ [][(~dbUp /\ Len(settled') = Len(settled) + 1
                /\ settled'[Len(settled')].kind \in ExecutedKinds)
          => /\ settled'[Len(settled')].kind \in {"error", "timeout"}
             /\ settled'[Len(settled')].id = request.id
             /\ failureCount' = failureCount + 1]_vars

C12_Witness ==
  /\ ~dbUp
  /\ failureCount = FAILURE_THRESHOLD
  /\ Len(settled) = 2
  /\ \A a \in 1..2 : settled[a] = Settle(a, "error")
  /\ QueuedIds = {3}
  /\ overloaded = {4}

\* C13: the breaker enters HALF_OPEN only from OPEN, only in an accepted enqueue call
\* made at least CIRCUIT_RESET_TIMEOUT after the last recorded failure, which leaves
\* successCount 0 and its item queued or in execution under HALF_OPEN; and OPEN moves
\* to CLOSED in one step only by resetCircuit.
C13_HalfOpenOnlyAfterTimeout ==
  /\ [][(circuitState # "HALF_OPEN" /\ circuitState' = "HALF_OPEN")
          => /\ circuitState = "OPEN"
             /\ lastFailureTime # 0
             /\ now - lastFailureTime >= CIRCUIT_RESET_TIMEOUT
             /\ nextId' = nextId + 1
             /\ nextId' \notin overloaded'
             /\ \/ nextId' \in {queue'[a].id : a \in 1..Len(queue')}
                \/ request'.id = nextId'
             /\ successCount' = 0]_vars
  /\ [][(circuitState = "OPEN" /\ circuitState' = "CLOSED") => ResetCircuit]_vars

C13_Witness ==
  /\ circuitState = "HALF_OPEN"
  /\ successCount = 0
  /\ pc = "await"
  /\ request.id = nextId
  /\ now - lastFailureTime >= CIRCUIT_RESET_TIMEOUT

\* C14: when the drain loop has stopped on an OPEN breaker with items left in the queue,
\* a new drain attempt follows (the loop runs again, executing or expiring the waiting
\* items) even if no further enqueue call is made.
C14_RetryAfterDelay ==
  [](\A i \in Ids :
       (pc = "idle" /\ circuitState = "OPEN" /\ Len(queue) > 0 /\ Head(queue).id = i)
         => <>(isProcessing \/ i \notin QueuedIds))

\* C15: every execution ends in one step that settles the request being executed, and
\* only it, with exactly one outcome and reports that outcome once to the breaker: a
\* result, within REQUEST_TIMEOUT, with one call of onSuccess; the handler's error,
\* within REQUEST_TIMEOUT, with one call of onFailure; or the timeout error, once
\* REQUEST_TIMEOUT has passed with the handler still running, with one call of
\* onFailure.  The handler completing later changes nothing.
C15_OneOutcomePerExecution ==
  /\ [][pc = "await" /\ pc' # "await"
          => /\ pc' = "resume"
             /\ Len(settled') = Len(settled) + 1
             /\ settled'[Len(settled')].id = request.id
             /\ settled'[Len(settled')].kind \in ExecutedKinds
             /\ SubSeq(settled', 1, Len(settled)) = settled]_vars
  /\ [][ExecSucceeded
          => /\ pc = "await"
             /\ now - started <= REQUEST_TIMEOUT
             /\ failureCount' = 0
             /\ IF circuitState = "HALF_OPEN"
                THEN \/ successCount' = successCount + 1 /\ circuitState' = "HALF_OPEN"
                     \/ successCount' = 0 /\ circuitState' = "CLOSED"
                ELSE UNCHANGED <<successCount, circuitState>>]_vars
  /\ [][ExecFailed
          => /\ pc = "await"
             /\ failureCount' = failureCount + 1
             /\ lastFailureTime' = now
             /\ settled'[Len(settled')].kind = "timeout"
                  => now - started >= REQUEST_TIMEOUT /\ request.id \in late'
             /\ settled'[Len(settled')].kind = "error"
                  => now - started <= REQUEST_TIMEOUT /\ late' = late]_vars
  /\ [][late' # late /\ ~ExecFailed => UNCHANGED <<qvars, dvars, settled, invoked>>]_vars
  /\ [](pc = "resume" => request.id \in SettledIds)
  /\ [](pc = "await" => request.id \notin SettledIds)

C15_Witness ==
  /\ \E a \in 1..Len(settled) : settled[a].kind = "timeout"
  /\ \E a \in 1..Len(settled) : settled[a].kind = "error"
  /\ \E a \in 1..Len(settled) : settled[a].kind = "result"
  /\ late = {}

\* the step is a checkHealth call passing its await: one probe's race is decided
ProbeCompleted == Cardinality(probes') = Cardinality(probes) - 1
\* ... by the timeout, which was due
ProbeTimedOut == \E p \in probes \ probes' : now - p.at >= HEALTH_CHECK_TIMEOUT_MS

\* C16: healthy is the outcome of the probe that completed last, in whatever order
\* overlapping probes complete: every completion sets it (true on a success, which the
\* failure counter tells from a failure or timeout), nothing else changes it, and it
\* is true as long as no probe has completed.
C16_HealthyIsLastOutcome ==
  /\ [][ProbeCompleted => (healthy' <=> failedChecks' = failedChecks)]_vars
  /\ [][ProbeCompleted /\ healthy' => dbUp]_vars
  /\ [][ProbeCompleted /\ ~healthy' => ~dbUp \/ ProbeTimedOut]_vars
  /\ [][healthy' # healthy => ProbeCompleted]_vars
  /\ [](Cardinality(probes) = probeSeq => healthy)
  /\ [](healthy <=> consecutiveFailures = 0)

\* the probe issued last has failed while the one issued before it is still in flight
C16_Witness ==
  /\ ~healthy
  /\ probeSeq = 2
  /\ \E p \in probes : p.n = 1
  /\ Cardinality(probes) = 1

\* C17: start() on a running monitor changes nothing: there is never more than one
\* timer, and a probe is issued only by the start() that creates the timer or by the
\* timer when CHECK_INTERVAL_MS has passed since the last probe was issued.
C17_StartIdempotent ==
  /\ [](checkInterval <= 1)
  /\ [][Start /\ checkInterval > 0 => UNCHANGED vars]_vars
  /\ [][probeSeq' # probeSeq
          => \/ checkInterval = 0 /\ checkInterval' = 1
             \/ /\ checkInterval = 1
                /\ checkInterval' = 1
                /\ now - lastCheck >= CHECK_INTERVAL_MS]_vars

C17_Witness ==
  /\ checkInterval = 1
  /\ probeSeq = 2
  /\ totalChecks = 2
  /\ lastCheck > 1

\* C18: a probe that succeeds sets healthy, adds one to consecutiveSuccesses and zeroes
\* consecutiveFailures; a probe that fails, by an error or by the timeout alike, clears
\* healthy, adds one to consecutiveFailures and to failedChecks and zeroes
\* consecutiveSuccesses.
C18_ProbeOutcomeUpdates ==
  [][ProbeCompleted
       => \/ /\ dbUp
             /\ healthy'
             /\ consecutiveSuccesses' = consecutiveSuccesses + 1
             /\ consecutiveFailures' = 0
             /\ lastSuccess' = now
             /\ UNCHANGED <<lastFailure, failedChecks, totalChecks, lastCheck>>
          \/ /\ ~dbUp \/ ProbeTimedOut
             /\ ~healthy'
             /\ consecutiveFailures' = consecutiveFailures + 1
             /\ failedChecks' = failedChecks + 1
             /\ consecutiveSuccesses' = 0
             /\ lastFailure' = now
             /\ UNCHANGED <<lastSuccess, totalChecks, lastCheck>>]_vars

\* a success, then a failure by the timeout while the downstream is up
C18_Witness ==
  /\ ~healthy
  /\ dbUp
  /\ consecutiveFailures = 1
  /\ consecutiveSuccesses = 0
  /\ failedChecks = 1
  /\ lastSuccess > 1
  /\ lastFailure > lastSuccess

\* C19: resetCircuit() leaves the breaker CLOSED with failureCount 0, successCount 0 and
\* lastFailureTime cleared, whatever the state it is called in, and changes nothing
\* else: the queue and its order, the processing flag, the drain loop's position and
\* the request it executes, the settlements and the handlers invoked.
C19_ResetCircuitFrame ==
  [][ResetCircuit
       => /\ circuitState' = "CLOSED"
          /\ failureCount' = 0
          /\ successCount' = 0
          /\ lastFailureTime' = 0
          /\ UNCHANGED <<queue, isProcessing, pc, request, started, retryTimers,
                         settled, invoked, overloaded, nextId, late>>]_vars

\* only resetCircuit called on an OPEN breaker whose drain loop has stopped leaves a
\* CLOSED breaker with items waiting and no drain loop running
C19_Witness ==
  /\ circuitState = "CLOSED"
  /\ failureCount = 0
  /\ lastFailureTime = 0
  /\ pc = "idle"
  /\ ~isProcessing
  /\ Len(queue) = 2
  /\ Len(settled) = FAILURE_THRESHOLD

\* C20: no OPEN state is terminal.  The breaker leaves OPEN, short of resetCircuit, by
\* an enqueue call made once CIRCUIT_RESET_TIMEOUT has passed since the last failure,
\* which moves it to HALF_OPEN: in every OPEN state where that time has passed such a
\* call is possible.
C20_OpenCanReachHalfOpen ==
  (circuitState = "OPEN" /\ shouldAttemptReset /\ Quiet)
    => ENABLED (enqueueRequest /\ circuitState' = "HALF_OPEN")

\* Short of resetCircuit, a full queue under an OPEN breaker stays as it is for ever:
\* enqueue rejects every call before it tests the breaker or starts the drain loop.
StuckOpen == circuitState = "OPEN" /\ Len(queue) >= MAX_QUEUE_SIZE
StuckOpenForEver == [][StuckOpen => StuckOpen' /\ queue' = queue]_vars

WaitDone == wpc \in {"returned", "threw"}

\* C21: waitForPostgres(retries, delay) makes at most `retries` attempts; it returns on
\* the first attempt that succeeds and makes no attempt after it; it throws when
\* `retries` attempts have failed (none when retries is 0); and every call ends.
C21_WaitForPostgresBounded ==
  /\ [](wAttempts <= wGiven.retries)
  /\ [][wpc' = "returned" /\ wpc # "returned"
          => wpc = "query" /\ dbUp /\ wAttempts' = wAttempts]_vars
  /\ [][wpc' = "threw" /\ wpc # "threw"
          => /\ wAttempts' = wGiven.retries
             /\ retries' = 0
             /\ wpc = "init" \/ ~dbUp \/ wpc = "sleep"]_vars
  /\ [][wAttempts' # wAttempts
          => /\ wAttempts' = wAttempts + 1
             /\ wpc \in {"init", "sleep"}
             /\ wAttempts = wGiven'.retries - retries']_vars
  /\ [][WaitDone => UNCHANGED wvars]_vars
  /\ (wpc # "init") ~> WaitDone

C21_Witness ==
  /\ wpc = "threw"
  /\ wGiven.retries = 3
  /\ wAttempts = 3
  /\ wSlept = 3 * wGiven.delay

\* C22: queue processing resumes when the breaker leaves OPEN: after a step that moves
\* it from OPEN to HALF_OPEN or CLOSED, resetCircuit included, with items in the queue,
\* a drain loop is active (or a timer is set to start one).
C22_ResumesOnLeavingOpen ==
  [][(circuitState = "OPEN" /\ circuitState' # "OPEN" /\ Len(queue') > 0)
       => isProcessing' \/ retryTimers' > 0]_vars

\* the dequeued items awaiting the outcome of their execution
Awaiting == {i \in Ids : invoked[i] > 0 /\ i \notin SettledIds}

\* C23: at most one drain loop is active and at most one dequeued item awaits its
\* outcome: the flag is set exactly while the loop is, the items awaiting an outcome
\* are the one request the loop is executing, and an enqueue call arriving while a
\* loop is active is rejected or appends its item, starting and executing nothing.
C23_SingleDrainLoop ==
  /\ [](Cardinality(Awaiting) <= 1)
  /\ [](isProcessing <=> pc # "idle")
  /\ [](Awaiting = IF pc = "await" THEN {request.id} ELSE {})
  /\ [][(isProcessing /\ nextId' = nextId + 1)
          => /\ \/ queue' = queue /\ nextId' \in overloaded'
                \/ queue' = Append(queue, QueuedRequest(nextId', now))
             /\ UNCHANGED <<isProcessing, pc, request, started, settled, invoked>>]_vars

C23_Witness ==
  /\ pc = "await"
  /\ request.id = 2
  /\ QueuedIds = {3, 4}
  /\ SettledIds = {1}

\* C24: successCount is 0 whenever the breaker is CLOSED or OPEN, and every successful
\* execution zeroes failureCount, in whatever state the breaker is.
C24_CounterResetRules ==
  /\ [](circuitState \in {"CLOSED", "OPEN"} => successCount = 0)
  /\ [][ExecSucceeded => failureCount' = 0]_vars

\* an execution has succeeded under an OPEN breaker
C24_Witness ==
  /\ circuitState = "OPEN"
  /\ Len(settled) > FAILURE_THRESHOLD
  /\ settled[Len(settled)].kind = "result"
  /\ failureCount = 0
  /\ successCount = 0

\* C25: a task run on the fast path, from its start to its success or failure, leaves
\* the breaker, its counters and timestamp, the queue and the processing flag as they
\* were; the breaker's fields change only in steps of the queue: an execution outcome
\* or an enqueue call.
C25_FastPathLeavesBreaker ==
  /\ [][direct' # direct => UNCHANGED <<qvars, dvars, ivars>>]_vars
  /\ [][<<circuitState, failureCount, successCount, lastFailureTime>>'
           # <<circuitState, failureCount, successCount, lastFailureTime>>
          => /\ direct' = direct
             /\ ExecSucceeded \/ ExecFailed \/ nextId' = nextId + 1]_vars

\* a fast-path task is in flight against a downstream that is down, after a queued
\* execution failed
C25_Witness ==
  /\ direct > 0
  /\ ~dbUp
  /\ healthy
  /\ failureCount = 1

QueueState == <<qvars, dvars, ivars>>

\* C26: the monitor and the queue share no state.  A step that changes a field of the
\* monitor (a probe issued or completed, start, stop) leaves the queue, the breaker,
\* its counters, the processing flag and the drain loop as they were; a step that
\* changes any of these (enqueue, a drain step, an execution outcome, resetCircuit)
\* leaves every field of the monitor as it was.
C26_MonitorAndQueueDisjoint ==
  /\ [][hvars' # hvars => QueueState' = QueueState]_vars
  /\ [][QueueState' # QueueState => hvars' = hvars]_vars

\* a probe has failed and, later, a queued execution
C26_Witness ==
  /\ ~healthy
  /\ failedChecks >= 1
  /\ circuitState = "CLOSED"
  /\ failureCount = 1
  /\ Len(settled) >= 2
  /\ lastFailureTime > lastFailure

\* C27: the step in which an execution times out settles the request that timed out
\* and nothing else: the queue keeps its items in their order, no other request is
\* settled, and no handler is invoked.
C27_TimeoutSettlesOnlyItsItem ==
  [][(/\ pc = "await"
      /\ pc' = "resume"
      /\ \E a \in 1..Len(settled') : settled'[a] = Settle(request.id, "timeout"))
       => /\ settled' = Append(settled, Settle(request.id, "timeout"))
          /\ queue' = queue
          /\ invoked' = invoked
          /\ overloaded' = overloaded]_vars

C27_Witness ==
  /\ pc = "resume"
  /\ settled[Len(settled)].kind = "timeout"
  /\ Len(queue) = MAX_QUEUE_SIZE

\* C28: the failure timestamp recorded when the breaker entered OPEN is not advanced
\* while the breaker stays OPEN.
C28_OpenKeepsFailureTime ==
  [][(circuitState = "OPEN" /\ circuitState' = "OPEN")
       => lastFailureTime' = lastFailureTime]_vars

\* C29: stop() cancels the periodic timer and touches nothing else; stop() on a monitor
\* that is not running changes nothing; while the monitor is stopped a probe is issued
\* only by a start() call, and that call creates exactly one timer.
C29_StopCancelsTimer ==
  /\ [][checkInterval' < checkInterval
          => /\ checkInterval' = 0
             /\ UNCHANGED <<healthy, lastCheck, lastSuccess, lastFailure,
                            consecutiveFailures, consecutiveSuccesses, totalChecks,
                            failedChecks, probes, probeSeq>>]_vars
  /\ [][Stop /\ checkInterval = 0 => UNCHANGED vars]_vars
  /\ [][checkInterval = 0 /\ probeSeq' # probeSeq => checkInterval' = 1]_vars
  /\ [][checkInterval = 0 /\ checkInterval' # 0
          => checkInterval' = 1 /\ probeSeq' = probeSeq + 1]_vars

\* two probes issued at the initial time: the monitor was started, stopped and
\* started again
C29_Witness ==
  /\ checkInterval = 1
  /\ probeSeq = 2
  /\ now = 1

\* the statistics after one success update
SuccessUpdate ==
  /\ healthy' = TRUE
  /\ consecutiveSuccesses' = consecutiveSuccesses + 1
  /\ consecutiveFailures' = 0
  /\ failedChecks' = failedChecks

\* the statistics after one failure update
FailureUpdate ==
  /\ healthy' = FALSE
  /\ consecutiveFailures' = consecutiveFailures + 1
  /\ consecutiveSuccesses' = 0
  /\ failedChecks' = failedChecks + 1

\* C30: every started probe is counted once in totalChecks and produces exactly one
\* outcome, a success update or a failure update, and no update is made without a
\* probe ending; a probe still in flight when the probe timeout has passed can be
\* recorded as a failure by the timeout; so totalChecks is failedChecks plus the
\* probes in flight plus the probes that ended in a success update.
C30_OneOutcomePerProbe ==
  /\ [][totalChecks' # totalChecks
          => /\ totalChecks' = totalChecks + 1
             /\ Cardinality(probes') = Cardinality(probes) + 1
             /\ probes \subseteq probes'
             /\ UNCHANGED <<healthy, lastSuccess, lastFailure, consecutiveFailures,
                            consecutiveSuccesses, failedChecks>>]_vars
  /\ [][probes' # probes /\ totalChecks' = totalChecks
          => /\ Cardinality(probes') = Cardinality(probes) - 1
             /\ probes' \subseteq probes
             /\ SuccessUpdate \/ FailureUpdate]_vars
  /\ [][<<healthy, lastSuccess, lastFailure, consecutiveFailures,
          consecutiveSuccesses, failedChecks>>' #
        <<healthy, lastSuccess, lastFailure, consecutiveFailures,
          consecutiveSuccesses, failedChecks>>
          => Cardinality(probes') = Cardinality(probes) - 1]_vars
  /\ [](\A p \in probes :
          now - p.at >= HEALTH_CHECK_TIMEOUT_MS
            => ENABLED (/\ ProbeTimeout
                        /\ p \notin probes'
                        /\ failedChecks' = failedChecks + 1))
  /\ [](failedChecks + Cardinality(probes) <= totalChecks)

\* two probes ended, the first in a failure update and the second in a success update
C30_Witness ==
  /\ totalChecks = 2
  /\ failedChecks = 1
  /\ consecutiveSuccesses = 1
  /\ probes = {}

\* C31: while the monitor stays unhealthy, timeSinceDown() grows exactly with the
\* clock, being the time elapsed since the healthy-to-unhealthy transition; while
\* healthy it is 0.
C31_DowntimeSinceTransition ==
  /\ [](healthy => timeSinceDown = 0)
  /\ [][(~healthy /\ ~healthy') => timeSinceDown' = timeSinceDown + (now' - now)]_vars

\* C32: the monitor is started and fastify.listen is called only in the step that
\* continues start() after waitForPostgres returned, and the server listens only after
\* that call; until then, and after waitForPostgres threw, the monitor has no timer and
\* has issued no probe; once waitForPostgres threw, the only step is the exit with code 1.
C32_ServeOnlyAfterDatabaseReady ==
  /\ [][(checkInterval' > checkInterval \/ (probeSeq = 0 /\ probeSeq' # 0))
          => wpc = "returned" /\ wpc' = "listen"]_vars
  /\ [][wpc' = "listen" /\ wpc # "listen" => wpc = "returned"]_vars
  /\ [][wpc' = "listening" /\ wpc # "listening" => wpc = "listen"]_vars
  /\ [](wpc \in {"init", "query", "sleep", "threw"}
          => checkInterval = 0 /\ probeSeq = 0 /\ totalChecks = 0)
  /\ [][wpc = "threw" => exitCode' = 1 /\ UNCHANGED <<wpc, hvars>>]_vars
  /\ [](exitCode = 1 => wpc \in {"threw", "listen"})

\* the server listens with the monitor running after the database refused the first
\* attempt of waitForPostgres
C32_Witness ==
  /\ wpc = "listening"
  /\ checkInterval = 1
  /\ wAttempts = 2
  /\ exitCode = -1

\* the process exited with code 1 after waitForPostgres used up its attempts
C32_ExitedAfterThrow ==
  /\ wpc = "threw"
  /\ exitCode = 1
  /\ wAttempts = 2

\* C33: when resetCircuit is never called, whenever no drain loop is active and the
\* breaker is not OPEN, the queue is empty.
C33_IdleAndNotOpenMeansEmpty ==
  (~isProcessing /\ circuitState # "OPEN") => queue = <<>>

\* the breaker left OPEN with two requests waiting, and the loop has drained them
C33_Witness ==
  /\ ~isProcessing
  /\ circuitState = "HALF_OPEN"
  /\ queue = <<>>
  /\ Len(settled) = 4

\* the accepted requests no resolve or reject call has been made on
Unsettled == Accepted \ SettledIds

\* C34: the accepted requests not yet settled are the queued ones and the one being
\* executed, and there are never more than maxQueueSize + 1 of them.
C34_UnsettledBounded ==
  /\ Unsettled = QueuedIds \cup (IF pc = "await" THEN {request.id} ELSE {})
  /\ Len(queue) + (IF pc = "await" THEN 1 ELSE 0) <= MAX_QUEUE_SIZE + 1
  /\ Cardinality(Unsettled) <= MAX_QUEUE_SIZE + 1

\* maxQueueSize + 1 requests are unsettled and a further call was turned away
C34_Witness ==
  /\ Cardinality(Unsettled) = MAX_QUEUE_SIZE + 1
  /\ pc = "await"
  /\ overloaded # {}

\* C35: while the breaker is CLOSED, failureCount is below failureThreshold.
C35_ClosedBelowThreshold ==
  circuitState = "CLOSED" => failureCount < FAILURE_THRESHOLD

\* the breaker was opened by two failures and reset, and the execution in flight
\* across the reset has failed as well
C35_Witness ==
  /\ circuitState = "CLOSED"
  /\ failureCount = 1
  /\ Len(settled) = 3
  /\ \A a \in 1..3 : settled[a].kind = "error"
  /\ nextId = 3

\* C36: while the breaker is OPEN, lastFailureTime is set, so shouldAttemptReset()
\* answers by the time passed since it alone.
C36_OpenHasFailureTime ==
  circuitState = "OPEN"
    => /\ lastFailureTime # 0
       /\ shouldAttemptReset <=> (now - lastFailureTime >= CIRCUIT_RESET_TIMEOUT)

\* the breaker was reset, which cleared the timestamp, and opened again; the reset
\* timeout has passed since
C36_Witness ==
  /\ circuitState = "OPEN"
  /\ shouldAttemptReset
  /\ Len(settled) = 4
  /\ \A a \in 1..4 : settled[a].kind = "error"
  /\ failureCount = FAILURE_THRESHOLD

\* C37: when a handler completes after its timeout was delivered, no breaker counter
\* or state changes, no request is settled, and the queue, the drain loop and the
\* request it is executing are left as they were.
C37_LateCompletionIgnored ==
  [][(\E i \in late : i \notin late')
       => /\ UNCHANGED <<circuitState, failureCount, successCount, lastFailureTime>>
          /\ UNCHANGED <<settled, overloaded, invoked>>
          /\ UNCHANGED <<queue, isProcessing, pc, request, started, retryTimers>>]_vars

\* a timed-out handler has completed while a later request is being executed after a
\* failure count was recorded
C37_Witness ==
  /\ late = {}
  /\ \E a \in 1..Len(settled) : settled[a].kind = "timeout"
  /\ pc = "await"
  /\ failureCount > 0

\* C38: failedChecks never exceeds totalChecks, resetStats() included, and the
\* uptimePercent of getStatus() lies between 0 and 100.
C38_UptimeWithinRange ==
  /\ failedChecks <= totalChecks
  /\ uptimePercent >= 0
  /\ uptimePercent <= 10000

\* C39: healthy is true exactly when consecutiveFailures is 0, and consecutiveFailures
\* and consecutiveSuccesses are never both non-zero.
C39_HealthyIffNoConsecutiveFailure ==
  /\ healthy <=> (consecutiveFailures = 0)
  /\ consecutiveFailures = 0 \/ consecutiveSuccesses = 0

\* two probes were in flight together; one failed and then the other succeeded
C39_Witness ==
  /\ totalChecks = 2
  /\ probes = {}
  /\ lastFailure > lastCheck
  /\ failedChecks = 1
  /\ consecutiveSuccesses = 1
  /\ healthy

====
